---- MODULE Spec2Model ----
(***************************************************************************)
(* Live market-data distribution of the TradePro backend                   *)
(* (src/complete-tradepro-backend.js): the periodic tick generator         *)
(* updateMarketData, the WebSocket fan-out broadcastToClients, the         *)
(* connection handler that sends the initialData snapshot, the signal      *)
(* handlers, and the request handlers of the REST interface with the       *)
(* tables they keep; and the AI trading panel of the React frontend        *)
(* (src/unnamed/part_000) with the page navigation that mounts it.         *)
(*                                                                         *)
(* Units.  Prices and changes are integers counting hundredths (the code   *)
(* rounds them with toFixed(2)); changePercent counts hundredths of a      *)
(* percent; a fluctuation counts 1/FluctScale; a quote's timestamp counts  *)
(* timer periods; the other dates count milliseconds.                      *)
(* Arithmetic on the unrounded intermediates is exact rational arithmetic. *)
(*                                                                         *)
(* Scheduling.  Node runs one handler at a time to completion.  A call of  *)
(* updateMarketData is split into one step per symbol so that the states   *)
(* in the middle of a tick exist in the model; while a call is in progress *)
(* (running > 0) no other handler is enabled.                              *)
(***************************************************************************)
EXTENDS Integers, Sequences, FiniteSets, TLC

\* ---------------------------------------------------------------- bounds
MaxViewers == 2
MaxTicks == 2
\* records the requests of a run of SpecApi may add to the tables, those of
\* the requests still waiting on their timer included
MaxRecords == 1
\* trades a run of SpecTrade may record
MaxTrades == 2
\* milliseconds between startup and the last reading of the clock
MaxMillis == 1

Viewers == 1..MaxViewers

\* ------------------------------------------------------------- constants
\* const symbols = ['BANKNIFTY', 'NIFTY', 'SENSEX', 'FINNIFTY']
symbols == <<"BANKNIFTY", "NIFTY", "SENSEX", "FINNIFTY">>

Symbols == {symbols[i] : i \in 1..Len(symbols)}

\* the demo market indices, prices and changes in hundredths
marketIndices ==
  << [id |-> 1, symbol |-> "BANKNIFTY", name |-> "Bank Nifty",
      price |-> 4782550, change |-> 24575, changePercent |-> 52,
      volume |-> 1234567],
     [id |-> 2, symbol |-> "NIFTY", name |-> "Nifty 50",
      price |-> 2184530, change |-> 12540, changePercent |-> 58,
      volume |-> 987654],
     [id |-> 3, symbol |-> "SENSEX", name |-> "Sensex",
      price |-> 7245680, change |-> 18920, changePercent |-> 26,
      volume |-> 654321],
     [id |-> 4, symbol |-> "FINNIFTY", name |-> "Fin Nifty",
      price |-> 2056790, change |-> -4560, changePercent |-> -22,
      volume |-> 456789] >>

\* a fluctuation f stands for f / FluctScale; (Math.random() - 0.5) * 0.02
\* ranges over [-0.01, 0.01), that is -FluctMax .. FluctMax - 1
FluctScale == 10000
FluctMax == 100

\* Math.floor(Math.random() * 500000) + 500000
VolumeBase == 500000
VolumeSpan == 500000

\* ------------------------------------------------------------- variables
VARIABLES
  marketData,   \* Map symbol -> quote
  replaced,     \* per symbol, the entry its latest marketData.set replaced
  clients,      \* wss.clients, in insertion order
  readyState,   \* per viewer: "NONE" (no socket), "OPEN", "CLOSING"
  inbox,        \* per viewer: the messages sent on its current connection
  running,      \* symbols already handled by the updateMarketData call in
                \* progress; 0 when no call is in progress
  clock,        \* number of timer periods elapsed
  listening,    \* the http server accepts connections
  exited,       \* process.exit was called
  sessions,     \* per viewer, the connections it has made so far, counted
                \* up to 2
  portfolios,   \* Map id -> portfolio
  positions,    \* Map id -> position
  priceAlerts,  \* Map id -> alert
  trades,       \* Map id -> trade
  aiAnalysis,   \* Map <<symbol, Date.now()>> -> analysis
  pending,      \* the requests waiting on their setTimeout, oldest first
  millis,       \* milliseconds since startup at the last reading of the clock
  response,     \* the HTTP response sent last
  currentPage,  \* the page the frontend shows
  panel,        \* the state of the mounted AITradingPanel, if one is mounted
  fetches       \* the frontend's analysis requests in flight

\* the state of the REST interface
api == <<portfolios, positions, priceAlerts, trades, aiAnalysis, pending, millis,
         response>>

\* the state of the frontend
browser == <<currentPage, panel, fetches>>

vars == <<marketData, replaced, clients, readyState, inbox, running, clock,
          listening, exited, sessions, api, browser>>

\* ------------------------------------------------------------ arithmetic
Abs(x) == IF x < 0 THEN -x ELSE x

Sign(x) == IF x < 0 THEN -1 ELSE 1

\* parseFloat((num / den).toFixed(2)) for a value counted in hundredths:
\* the nearest integer, a tie going to the larger magnitude (den > 0)
ToFixed2(num, den) == Sign(num) * ((2 * Abs(num) + den) \div (2 * den))

\* the same for base + num / den when that value is not negative: a tie
\* goes to the larger integer (base is an integer, den > 0)
ToFixed2From(base, num, den) == base + ((2 * num + den) \div (2 * den))

\* ---------------------------------------------------------- random draws
\* One symbol's update calls Math.random() twice: for the fluctuation and for
\* the volume.  A draw is the pair of results.
\* Math.random() = 0 in both calls: fluctuation (0 - 0.5) * 0.02, volume 500000
RandomZero == [fluctuation |-> -FluctMax, volume |-> VolumeBase]

\* The handlers of the distribution mechanism never read a quote's fields, so
\* Spec runs every update on the draw RandomZero; SpecTick runs one tick on
\* each of Draws: the least fluctuation, -0.0037, +0.005, and the greatest of
\* this grid; the least and the greatest volume.
ZeroDraws == {RandomZero}

Draws ==
  { RandomZero,
    [fluctuation |-> -37, volume |-> VolumeBase + VolumeSpan - 1],
    [fluctuation |-> 50, volume |-> VolumeBase],
    [fluctuation |-> FluctMax - 1, volume |-> VolumeBase + VolumeSpan - 1] }

\* --------------------------------------------------------- initial state
\* initializeDemoData: marketData.set(index.symbol, {...index, timestamp})
initializeDemoData ==
  [symbol \in Symbols |->
     LET index == CHOOSE m \in {marketIndices[i] : i \in 1..Len(marketIndices)} :
                    m.symbol = symbol
     IN [id |-> index.id, symbol |-> index.symbol, name |-> index.name,
         price |-> index.price, change |-> index.change,
         changePercent |-> index.changePercent, volume |-> index.volume,
         timestamp |-> 0]]

\* Date.now() at startup, in a range the model's integers hold; it exceeds
\* the size of every table
StartedAt == 1000000

\* Date.now(), and new Date(), ms milliseconds after startup
DateNow(ms) == StartedAt + ms

\* initializeDemoData: portfolios.set(1, {...}); amounts in hundredths
demoPortfolios ==
  (1 :> [id |-> 1, userId |-> 1, totalValue |-> 54789200,
         availableCash |-> 12356700, todayPnL |-> 1245600,
         updatedAt |-> DateNow(0)])

\* initializeDemoData: positions.set(1, {...}); positions.set(2, {...})
demoPositions ==
  (1 :> [id |-> 1, userId |-> 1, symbol |-> "BANKNIFTY 48000 CE",
         quantity |-> 100, avgPrice |-> 28750, currentPrice |-> 33000,
         pnl |-> 425000, positionType |-> "long", createdAt |-> DateNow(0)])
  @@
  (2 :> [id |-> 2, userId |-> 1, symbol |-> "BANKNIFTY 47500 PE",
         quantity |-> 50, avgPrice |-> 15675, currentPrice |-> 13425,
         pnl |-> -112500, positionType |-> "short", createdAt |-> DateNow(0)])

\* a Map with no entry
EmptyMap == <<>>

\* no response sent yet
NoResponse == [status |-> 0]

\* the tables and the request state of the REST interface after startup
InitApi ==
  /\ portfolios = demoPortfolios
  /\ positions = demoPositions
  /\ priceAlerts = EmptyMap
  /\ trades = EmptyMap
  /\ aiAnalysis = EmptyMap
  /\ pending = <<>>
  /\ millis = 0
  /\ response = NoResponse

\* no AITradingPanel is mounted
NoPanel == [mounted |-> FALSE]

\* useState('dashboard'): the Dashboard page has no AI trading panel
InitBrowser ==
  /\ currentPage = "dashboard"
  /\ panel = NoPanel
  /\ fetches = <<>>

Init ==
  /\ marketData = initializeDemoData
  /\ replaced = initializeDemoData
  /\ clients = <<>>
  /\ readyState = [ws \in Viewers |-> "NONE"]
  /\ inbox = [ws \in Viewers |-> <<>>]
  /\ running = 0
  /\ clock = 0
  /\ listening = TRUE
  /\ exited = FALSE
  /\ sessions = [ws \in Viewers |-> 0]
  /\ InitApi
  /\ InitBrowser

\* --------------------------------------------------------- tick generator
\* newPrice - current.price, as a numerator over FluctScale:
\* newPrice = current.price * (1 + fluctuation), change = newPrice - current.price
changeOver(current, fluctuation) == current.price * fluctuation

\* mutant: the update keeps the volume of the entry it replaces
updatedDataKeepsVolume(current, draw, now) ==
  LET c == changeOver(current, draw.fluctuation)
  IN [current EXCEPT
        !.price = ToFixed2From(current.price, c, FluctScale),
        !.change = ToFixed2(c, FluctScale),
        !.changePercent = ToFixed2(c, current.price),
        !.timestamp = now]

\* const updatedData = {...current, price, change, changePercent, volume, timestamp}
\* changePercent is (change / current.price) * 100 in hundredths of a percent:
\* (c / FluctScale) / price * 100 * 100 with FluctScale = 100 * 100, i.e. c / price
updatedData(current, draw, now) ==
  LET c == changeOver(current, draw.fluctuation)
  IN [current EXCEPT
        !.price = ToFixed2From(current.price, c, FluctScale),
        !.change = ToFixed2(c, FluctScale),
        !.changePercent = ToFixed2(c, current.price),
        !.volume = draw.volume,
        !.timestamp = now]

\* ------------------------------------------------------------ broadcaster
\* ws.send(message) on an open socket: the message goes out on the connection
send(box, ws, message) == [box EXCEPT ![ws] = Append(@, message)]

\* wss.clients.forEach(client => { if (client.readyState === OPEN) client.send })
RECURSIVE forEachClient(_, _, _)
forEachClient(cs, box, message) ==
  IF cs = <<>> THEN box
  ELSE LET client == Head(cs)
       IN forEachClient(Tail(cs),
                        IF readyState[client] = "OPEN"
                          THEN send(box, client, message)
                          ELSE box,
                        message)

\* mutant: only the first client of the registry is served
broadcastToFirstClient(message) ==
  IF clients = <<>> THEN inbox
  ELSE forEachClient(<<Head(clients)>>, inbox, message)

\* mutant: the loop ends at the first client that is not open
RECURSIVE untilNotOpen(_, _, _)
untilNotOpen(cs, box, message) ==
  IF cs = <<>> \/ readyState[Head(cs)] # "OPEN" THEN box
  ELSE untilNotOpen(Tail(cs), send(box, Head(cs), message), message)

broadcastUntilNotOpen(message) == untilNotOpen(clients, inbox, message)

broadcastToClients(message) == forEachClient(clients, inbox, message)

\* mutant: the iteration broadcasts the entry it read and then replaces it
updateMarketDataBroadcastsFirst(draws, lastTick) ==
  /\ ~exited
  /\ running > 0 \/ clock < lastTick
  /\ LET now == IF running = 0 THEN clock + 1 ELSE clock
         symbol == symbols[running + 1]
     IN /\ clock' = now
        /\ running' = (running + 1) % Len(symbols)
        /\ IF symbol \in DOMAIN marketData
             THEN \E draw \in draws :
                    LET current == marketData[symbol]
                        data == updatedData(current, draw, now)
                    IN /\ inbox' = broadcastToClients(
                                     [type |-> "marketUpdate",
                                      symbol |-> symbol, data |-> current])
                       /\ marketData' = [marketData EXCEPT ![symbol] = data]
                       /\ replaced' = [replaced EXCEPT ![symbol] = current]
             ELSE UNCHANGED <<marketData, replaced, inbox>>
  /\ UNCHANGED <<clients, readyState, listening, exited>>

\* mutant: the timer is a setTimeout, which fires once
updateMarketDataOnce(draws, lastTick) ==
  /\ ~exited
  /\ running > 0 \/ (clock < lastTick /\ clock < 1)
  /\ LET now == IF running = 0 THEN clock + 1 ELSE clock
         symbol == symbols[running + 1]
     IN /\ clock' = now
        /\ running' = (running + 1) % Len(symbols)
        /\ IF symbol \in DOMAIN marketData
             THEN \E draw \in draws :
                    LET current == marketData[symbol]
                        data == updatedData(current, draw, now)
                    IN /\ marketData' = [marketData EXCEPT ![symbol] = data]
                       /\ replaced' = [replaced EXCEPT ![symbol] = current]
                       /\ inbox' = broadcastToClients(
                                     [type |-> "marketUpdate",
                                      symbol |-> symbol, data |-> data])
             ELSE UNCHANGED <<marketData, replaced, inbox>>
  /\ UNCHANGED <<clients, readyState, listening, exited>>

\* one iteration of symbols.forEach in updateMarketData; the first iteration
\* of a call is the timer firing, which needs the process alive (and, in the
\* model, a clock before lastTick)
updateMarketData(draws, lastTick) ==
  /\ ~exited
  /\ running > 0 \/ clock < lastTick
  /\ LET now == IF running = 0 THEN clock + 1 ELSE clock
         symbol == symbols[running + 1]
     IN /\ clock' = now
        /\ running' = (running + 1) % Len(symbols)
        /\ IF symbol \in DOMAIN marketData
             THEN \E draw \in draws :
                    LET current == marketData[symbol]
                        data == updatedData(current, draw, now)
                    IN /\ marketData' = [marketData EXCEPT ![symbol] = data]
                       /\ replaced' = [replaced EXCEPT ![symbol] = current]
                       /\ inbox' = broadcastToClients(
                                     [type |-> "marketUpdate",
                                      symbol |-> symbol, data |-> data])
             ELSE UNCHANGED <<marketData, replaced, inbox>>
  /\ UNCHANGED <<clients, readyState, listening, exited>>

\* mutant: updateMarketData yields to the event loop between two symbols
IdleBetweenSymbols == ~exited

\* no handler is in progress, and the process is alive: the event loop can
\* start the next handler
Idle == running = 0 /\ ~exited

\* ------------------------------------------------------------ connections
\* mutant: the snapshot is the table as loaded at startup
initialDataAtStartup == initializeDemoData

\* const initialData = {}; marketData.forEach((data, symbol) => ...)
initialData == [symbol \in DOMAIN marketData |-> marketData[symbol]]

\* mutant: the handler registers the viewer and sends no snapshot
connectionWithoutSnapshot(ws) ==
  /\ Idle
  /\ listening
  /\ readyState[ws] = "NONE"
  /\ clients' = Append(clients, ws)
  /\ readyState' = [readyState EXCEPT ![ws] = "OPEN"]
  /\ UNCHANGED <<marketData, replaced, inbox, running, clock, listening, exited>>

\* mutant: a viewer that was connected before resumes without a snapshot
connectionResumesSession(ws) ==
  /\ Idle
  /\ listening
  /\ readyState[ws] = "NONE"
  /\ clients' = Append(clients, ws)
  /\ readyState' = [readyState EXCEPT ![ws] = "OPEN"]
  /\ inbox' = IF sessions[ws] > 0 THEN inbox
              ELSE send(inbox, ws, [type |-> "initialData", data |-> initialData])
  /\ UNCHANGED <<marketData, replaced, running, clock, listening, exited>>

\* wss.on('connection'): the library has added ws to wss.clients; the handler
\* sends the snapshot
connection(ws) ==
  /\ Idle
  /\ listening
  /\ readyState[ws] = "NONE"
  /\ clients' = Append(clients, ws)
  /\ readyState' = [readyState EXCEPT ![ws] = "OPEN"]
  /\ inbox' = send(inbox, ws, [type |-> "initialData", data |-> initialData])
  /\ UNCHANGED <<marketData, replaced, running, clock, listening, exited>>

\* ws.on('error'): the transport fails or starts its closing handshake; the
\* socket leaves OPEN and stays in wss.clients; the handler only logs
onError(ws) ==
  /\ Idle
  /\ readyState[ws] = "OPEN"
  /\ readyState' = [readyState EXCEPT ![ws] = "CLOSING"]
  /\ UNCHANGED <<marketData, replaced, clients, inbox, running, clock,
                 listening, exited>>

\* mutant: a close empties the registry
onCloseClearsRegistry(ws) ==
  /\ Idle
  /\ readyState[ws] # "NONE"
  /\ clients' = <<>>
  /\ readyState' = [readyState EXCEPT ![ws] = "NONE"]
  /\ inbox' = [inbox EXCEPT ![ws] = <<>>]
  /\ UNCHANGED <<marketData, replaced, running, clock, listening, exited>>

\* ws.on('close'): the library has removed ws from wss.clients; the handler
\* only logs
onClose(ws) ==
  /\ Idle
  /\ readyState[ws] # "NONE"
  /\ clients' = SelectSeq(clients, LAMBDA c : c # ws)
  /\ readyState' = [readyState EXCEPT ![ws] = "NONE"]
  /\ inbox' = [inbox EXCEPT ![ws] = <<>>]
  /\ UNCHANGED <<marketData, replaced, running, clock, listening, exited>>

\* --------------------------------------------------------------- shutdown
\* process.on('SIGTERM' | 'SIGINT'): server.close(callback) stops accepting
\* connections; nothing else is stopped or closed
onSignal ==
  /\ Idle
  /\ listening
  /\ listening' = FALSE
  /\ UNCHANGED <<marketData, replaced, clients, readyState, inbox, running,
                 clock, exited>>

\* the callback of server.close runs once every connection has ended:
\* process.exit(0)
serverClosed ==
  /\ Idle
  /\ ~listening
  /\ clients = <<>>
  /\ exited' = TRUE
  /\ UNCHANGED <<marketData, replaced, clients, readyState, inbox, running,
                 clock, listening>>

\* --------------------------------------------------------- REST interface
\* The state a request handler leaves alone: the market feed, with its
\* history variables.  No request handler calls marketData.set.
feed == <<marketData, replaced, clients, readyState, inbox, running, clock,
          listening, exited, sessions>>

\* map.size
Size(map) == Cardinality(DOMAIN map)

\* map.set(key, value)
Put(map, key, value) ==
  [k \in DOMAIN map \cup {key} |-> IF k = key THEN value ELSE map[k]]

\* Array.from(map.values()) of a Map whose keys are 1, 2, ... in insertion
\* order (every table but trades and aiAnalysis)
values(map) == [i \in 1..Size(map) |-> map[i]]

\* array.filter(keep), keep given as the set of elements to keep
filter(array, kept) == SelectSeq(array, LAMBDA e : e \in kept)

\* req.params.symbol.toUpperCase(), on the strings the model's requests use
toUpperCase(str) ==
  CASE str = "nifty" -> "NIFTY"
    [] str = "banknifty" -> "BANKNIFTY"
    [] OTHER -> str

\* parseInt(x) of a number x given in hundredths: the integer part
parseInt(x) == Sign(x) * (Abs(x) \div 100)

\* parseFloat(x) of a number x given in hundredths: the number, in hundredths
parseFloat(x) == x

\* res.status(code).json(body)
json(code, body) == [status |-> code, body |-> body]

\* app.get('/api/health')
getHealth ==
  /\ Idle
  /\ \E ms \in millis..MaxMillis :
       /\ millis' = ms
       /\ response' = json(200, [status |-> "OK", timestamp |-> DateNow(ms),
                                 message |-> "TradePro Backend Server Running"])
  /\ UNCHANGED <<browser, feed, portfolios, positions, priceAlerts, trades, aiAnalysis,
                 pending>>

\* app.get('/api/market-indices'): the quotes in the table's insertion order
getMarketIndices ==
  /\ Idle
  /\ response' = json(200, [i \in 1..Len(marketIndices) |->
                              marketData[marketIndices[i].symbol]])
  /\ UNCHANGED <<browser, feed, portfolios, positions, priceAlerts, trades, aiAnalysis,
                 pending, millis>>

\* mutant: a lookup that misses stores a placeholder quote for the symbol
getMarketIndexCaching(param) ==
  /\ Idle
  /\ LET symbol == toUpperCase(param)
     IN IF symbol \in DOMAIN marketData
          THEN /\ response' = json(200, marketData[symbol])
               /\ UNCHANGED marketData
          ELSE /\ response' = json(404, [error |-> "Market data not found"])
               /\ marketData' = Put(marketData, symbol, [symbol |-> symbol])
  /\ UNCHANGED <<replaced, clients, readyState, inbox, running, clock,
                 listening, exited, sessions, portfolios, positions,
                 priceAlerts, trades, aiAnalysis, pending, millis, browser>>

\* app.get('/api/market-indices/:symbol')
getMarketIndex(param) ==
  /\ Idle
  /\ LET symbol == toUpperCase(param)
     IN response' = IF symbol \in DOMAIN marketData
                      THEN json(200, marketData[symbol])
                      ELSE json(404, [error |-> "Market data not found"])
  /\ UNCHANGED <<browser, feed, portfolios, positions, priceAlerts, trades, aiAnalysis,
                 pending, millis>>

\* array.find(p => p.userId === userId), as the set holding the element found
findByUser(array, userId) ==
  LET hits == {i \in 1..Len(array) : array[i].userId = userId}
  IN IF hits = {} THEN {}
     ELSE {array[CHOOSE i \in hits : \A j \in hits : i <= j]}

\* app.get('/api/portfolio/:userId')
getPortfolio(userId) ==
  /\ Idle
  /\ LET found == findByUser(values(portfolios), userId)
     IN response' = IF found = {}
                      THEN json(404, [error |-> "Portfolio not found"])
                      ELSE json(200, CHOOSE portfolio \in found : TRUE)
  /\ UNCHANGED <<browser, feed, portfolios, positions, priceAlerts, trades, aiAnalysis,
                 pending, millis>>

\* app.post('/api/portfolio')
postPortfolio(bodies) ==
  /\ Idle
  /\ \E body \in bodies, ms \in millis..MaxMillis :
       LET id == Size(portfolios) + 1
           portfolio == [id |-> id, userId |-> body.userId,
                         totalValue |-> parseFloat(body.totalValue),
                         availableCash |-> parseFloat(body.availableCash),
                         todayPnL |-> parseFloat(body.todayPnL),
                         updatedAt |-> DateNow(ms)]
       IN /\ portfolios' = Put(portfolios, id, portfolio)
          /\ response' = json(201, portfolio)
          /\ millis' = ms
  /\ UNCHANGED <<browser, feed, positions, priceAlerts, trades, aiAnalysis, pending>>

\* app.get('/api/positions/:userId')
getPositions(userId) ==
  /\ Idle
  /\ response' = json(200, filter(values(positions),
                                  {p \in {positions[i] : i \in DOMAIN positions} :
                                     p.userId = userId}))
  /\ UNCHANGED <<browser, feed, portfolios, positions, priceAlerts, trades, aiAnalysis,
                 pending, millis>>

\* app.post('/api/positions')
postPosition(bodies) ==
  /\ Idle
  /\ \E body \in bodies, ms \in millis..MaxMillis :
       LET id == Size(positions) + 1
           position == [id |-> id, userId |-> body.userId,
                        symbol |-> body.symbol,
                        quantity |-> parseInt(body.quantity),
                        avgPrice |-> parseFloat(body.avgPrice),
                        currentPrice |-> parseFloat(body.currentPrice),
                        pnl |-> parseFloat(body.pnl),
                        positionType |-> body.positionType,
                        createdAt |-> DateNow(ms)]
       IN /\ positions' = Put(positions, id, position)
          /\ response' = json(201, position)
          /\ millis' = ms
  /\ UNCHANGED <<browser, feed, portfolios, priceAlerts, trades, aiAnalysis, pending>>

\* initializeDemoData: const bankNiftyOptions = [...]; prices in hundredths
bankNiftyOptions ==
  << [strike |-> 47000, callPrice |-> 215675, putPrice |-> 4530,
      callVolume |-> 1250, putVolume |-> 890, callOI |-> 15000, putOI |-> 8900],
     [strike |-> 47500, callPrice |-> 168725, putPrice |-> 7845,
      callVolume |-> 2340, putVolume |-> 1560, callOI |-> 23400, putOI |-> 15600],
     [strike |-> 48000, callPrice |-> 128590, putPrice |-> 13425,
      callVolume |-> 3450, putVolume |-> 2890, callOI |-> 34500, putOI |-> 28900],
     [strike |-> 48500, callPrice |-> 94575, putPrice |-> 21360,
      callVolume |-> 2670, putVolume |-> 3240, callOI |-> 26700, putOI |-> 32400],
     [strike |-> 49000, callPrice |-> 67830, putPrice |-> 32780,
      callVolume |-> 1890, putVolume |-> 4120, callOI |-> 18900, putOI |-> 41200],
     [strike |-> 49500, callPrice |-> 45625, putPrice |-> 47890,
      callVolume |-> 1240, putVolume |-> 2890, callOI |-> 12400, putOI |-> 28900],
     [strike |-> 50000, callPrice |-> 29875, putPrice |-> 66745,
      callVolume |-> 890, putVolume |-> 2340, callOI |-> 8900, putOI |-> 23400] >>

\* optionsData, set once at startup and only read afterwards
optionsData ==
  [underlying \in {"BANKNIFTY"} |->
     [index \in 1..Len(bankNiftyOptions) |->
        [id |-> index, underlyingSymbol |-> "BANKNIFTY",
         expiryDate |-> "25 Jan 2024", timestamp |-> DateNow(0)]
        @@ bankNiftyOptions[index]]]

\* app.get('/api/options-chain/:symbol/:expiry')
getOptionsChain(param) ==
  /\ Idle
  /\ LET symbol == toUpperCase(param)
     IN response' = json(200, IF symbol \in DOMAIN optionsData
                                THEN optionsData[symbol] ELSE <<>>)
  /\ UNCHANGED <<browser, feed, portfolios, positions, priceAlerts, trades, aiAnalysis,
                 pending, millis>>

\* app.get('/api/alerts/:userId')
getAlerts(userId) ==
  /\ Idle
  /\ response' = json(200, filter(values(priceAlerts),
                                  {a \in {priceAlerts[i] : i \in DOMAIN priceAlerts} :
                                     a.userId = userId}))
  /\ UNCHANGED <<browser, feed, portfolios, positions, priceAlerts, trades, aiAnalysis,
                 pending, millis>>

\* app.post('/api/alerts'); triggeredAt: null is 0
postAlert(bodies) ==
  /\ Idle
  /\ \E body \in bodies, ms \in millis..MaxMillis :
       LET id == Size(priceAlerts) + 1
           alert == [id |-> id, userId |-> body.userId, symbol |-> body.symbol,
                     condition |-> body.condition,
                     targetPrice |-> parseFloat(body.targetPrice),
                     isActive |-> TRUE, isTriggered |-> FALSE,
                     createdAt |-> DateNow(ms), triggeredAt |-> 0]
       IN /\ priceAlerts' = Put(priceAlerts, id, alert)
          /\ response' = json(201, alert)
          /\ millis' = ms
  /\ UNCHANGED <<browser, feed, portfolios, positions, trades, aiAnalysis, pending>>

\* mutant: the quantity of an adjusted position is kept from going below 0
tradedPositionsFloored(body, ms) ==
  LET matching == {id \in DOMAIN positions :
                     /\ positions[id].userId = body.userId
                     /\ positions[id].symbol = body.symbol}
  IN IF matching # {}
       THEN LET existingPosition ==
                  positions[CHOOSE id \in matching : \A j \in matching : id <= j]
                adjusted ==
                  IF body.tradeType = "buy"
                    THEN existingPosition.quantity + parseInt(body.quantity)
                    ELSE existingPosition.quantity - parseInt(body.quantity)
                newQuantity == IF adjusted < 0 THEN 0 ELSE adjusted
            IN Put(positions, existingPosition.id,
                   [existingPosition EXCEPT
                      !.quantity = newQuantity,
                      !.currentPrice = parseFloat(body.price),
                      !.pnl = (parseFloat(body.price) - existingPosition.avgPrice)
                                * newQuantity])
       ELSE IF body.tradeType = "buy"
              THEN Put(positions, Size(positions) + 1,
                       [id |-> Size(positions) + 1, userId |-> body.userId,
                        symbol |-> body.symbol,
                        quantity |-> parseInt(body.quantity),
                        avgPrice |-> parseFloat(body.price),
                        currentPrice |-> parseFloat(body.price),
                        pnl |-> 0, positionType |-> "long",
                        createdAt |-> DateNow(ms)])
              ELSE positions

\* the update of positions in app.post('/api/trade'): the first position of
\* the same user and symbol is adjusted; without one, a buy opens a position
tradedPositions(body, ms) ==
  LET matching == {id \in DOMAIN positions :
                     /\ positions[id].userId = body.userId
                     /\ positions[id].symbol = body.symbol}
  IN IF matching # {}
       THEN LET existingPosition ==
                  positions[CHOOSE id \in matching : \A j \in matching : id <= j]
                newQuantity ==
                  IF body.tradeType = "buy"
                    THEN existingPosition.quantity + parseInt(body.quantity)
                    ELSE existingPosition.quantity - parseInt(body.quantity)
            IN Put(positions, existingPosition.id,
                   [existingPosition EXCEPT
                      !.quantity = newQuantity,
                      !.currentPrice = parseFloat(body.price),
                      !.pnl = (parseFloat(body.price) - existingPosition.avgPrice)
                                * newQuantity])
       ELSE IF body.tradeType = "buy"
              THEN Put(positions, Size(positions) + 1,
                       [id |-> Size(positions) + 1, userId |-> body.userId,
                        symbol |-> body.symbol,
                        quantity |-> parseInt(body.quantity),
                        avgPrice |-> parseFloat(body.price),
                        currentPrice |-> parseFloat(body.price),
                        pnl |-> 0, positionType |-> "long",
                        createdAt |-> DateNow(ms)])
              ELSE positions

\* app.post('/api/trade')
postTrade(bodies) ==
  /\ Idle
  /\ \E body \in bodies, ms \in millis..MaxMillis :
       LET id == Size(trades) + 1
           trade == [id |-> id, userId |-> body.userId, symbol |-> body.symbol,
                     tradeType |-> body.tradeType,
                     quantity |-> parseInt(body.quantity),
                     price |-> parseFloat(body.price),
                     status |-> "EXECUTED", executedAt |-> DateNow(ms)]
       IN /\ trades' = Put(trades, id, trade)
          /\ positions' = tradedPositions(body, ms)
          /\ response' = json(201, trade)
          /\ millis' = ms
  /\ UNCHANGED <<browser, feed, portfolios, priceAlerts, aiAnalysis, pending>>

\* data.change.toFixed(2) with its sign prefix, as the prefix and the
\* hundredths printed: (x >= 0 ? '+' : '') + x.toFixed(2)
signed(x) == [prefix |-> IF x >= 0 THEN "+" ELSE "", hundredths |-> x]

\* app.get('/api/watchlist')
getWatchlist ==
  /\ Idle
  /\ response' =
       json(200, [i \in 1..Len(marketIndices) |->
                    LET data == marketData[marketIndices[i].symbol]
                    IN [symbol |-> data.symbol,
                        price |-> [prefix |-> "", hundredths |-> data.price],
                        change |-> signed(data.change),
                        changePercent |-> signed(data.changePercent)]])
  /\ UNCHANGED <<browser, feed, portfolios, positions, priceAlerts, trades, aiAnalysis,
                 pending, millis>>

\* ------------------------------------------------- AI endpoints and timers
\* setTimeout delays of the simulated AI calls, in milliseconds
AnalysisDelay == 2000
StrategyDelay == 1500
ExecutionDelay == 1000
AssessmentDelay == 1000

\* A handler that awaits a setTimeout is two steps: the part before the await
\* appends the request, with the values it has read so far, to pending; its
\* timer then resumes it.  Timers fire in the order of their due times, so
\* the request at place i can resume only when every earlier one waits longer.
due(i) == \A j \in 1..(i - 1) : pending[j].delay > pending[i].delay

\* pending without the request at place i
resumed(i) == SubSeq(pending, 1, i - 1) \o SubSeq(pending, i + 1, Len(pending))

\* the results of Math.random() in analyzeMarketWithAI, as the values chosen
AnalysisDraws ==
  { [signal |-> "BUY", confidence |-> 70, riskLevel |-> "LOW"],
    [signal |-> "SELL", confidence |-> 99, riskLevel |-> "HIGH"] }

\* signal === 'BUY' ? 1.02 : 0.98 and signal === 'BUY' ? 0.98 : 1.02, in
\* hundredths; a price times a multiplier counts 1/10000
targetMultiplier(signal) == IF signal = "BUY" THEN 102 ELSE 98

stopMultiplier(signal) == IF signal = "BUY" THEN 98 ELSE 102

\* mutant: the analysis reads the table again after its delay
analysisReadsAfterDelay(request, draw, ms) ==
  [symbol |-> request.symbol,
   signal |-> draw.signal,
   confidence |-> draw.confidence,
   reasoning |-> << request.symbol,
                    CASE draw.signal = "BUY" ->
                           "bullish momentum with strong volume support"
                      [] draw.signal = "SELL" ->
                           "bearish pressure with resistance at current levels"
                      [] OTHER -> "consolidation pattern with mixed signals",
                    CASE draw.riskLevel = "LOW" -> "low"
                      [] draw.riskLevel = "MEDIUM" -> "medium"
                      [] OTHER -> "high" >>,
   targetPrice |-> marketData[request.symbol].price
                     * targetMultiplier(draw.signal),
   stopLoss |-> marketData[request.symbol].price * stopMultiplier(draw.signal),
   riskLevel |-> draw.riskLevel,
   timestamp |-> DateNow(ms)]

\* the object analyzeMarketWithAI returns after its delay; reasoning is the
\* template's three insertions
analysis(request, draw, ms) ==
  [symbol |-> request.symbol,
   signal |-> draw.signal,
   confidence |-> draw.confidence,
   reasoning |-> << request.symbol,
                    CASE draw.signal = "BUY" ->
                           "bullish momentum with strong volume support"
                      [] draw.signal = "SELL" ->
                           "bearish pressure with resistance at current levels"
                      [] OTHER -> "consolidation pattern with mixed signals",
                    CASE draw.riskLevel = "LOW" -> "low"
                      [] draw.riskLevel = "MEDIUM" -> "medium"
                      [] OTHER -> "high" >>,
   targetPrice |-> request.marketDataPoint.price * targetMultiplier(draw.signal),
   stopLoss |-> request.marketDataPoint.price * stopMultiplier(draw.signal),
   riskLevel |-> draw.riskLevel,
   timestamp |-> DateNow(ms)]

\* the synchronous part of analyzeMarketWithAI, called by a handler whose
\* catch answers with the error failed: a miss throws before the await
analyzeMarketWithAI(kind, param, failed) ==
  LET symbol == toUpperCase(param)
  IN IF symbol \in DOMAIN marketData
       THEN /\ pending' = Append(pending,
                                 [kind |-> kind, delay |-> AnalysisDelay,
                                  symbol |-> symbol,
                                  marketDataPoint |-> marketData[symbol]])
            /\ response' = NoResponse
       ELSE /\ response' = json(500, [error |-> failed])
            /\ UNCHANGED pending

\* app.post('/api/ai/analyze-market/:symbol'), up to the await
analyzeMarket(param) ==
  /\ Idle
  /\ analyzeMarketWithAI("analyze-market", param, "AI analysis failed")
  /\ UNCHANGED <<browser, feed, portfolios, positions, priceAlerts, trades, aiAnalysis,
                 millis>>

\* app.post('/api/ai/analyze-market/:symbol'), from the await on
analyzeMarketResumes(i) ==
  /\ Idle
  /\ i \in 1..Len(pending)
  /\ pending[i].kind = "analyze-market"
  /\ due(i)
  /\ \E draw \in AnalysisDraws, ms \in millis..MaxMillis :
       /\ response' = json(200, analysis(pending[i], draw, ms))
       /\ millis' = ms
  /\ pending' = resumed(i)
  /\ UNCHANGED <<browser, feed, portfolios, positions, priceAlerts, trades, aiAnalysis>>

\* app.post('/api/ai/trading-signal/:symbol'), up to the await
tradingSignal(param) ==
  /\ Idle
  /\ analyzeMarketWithAI("trading-signal", param, "Signal generation failed")
  /\ UNCHANGED <<browser, feed, portfolios, positions, priceAlerts, trades, aiAnalysis,
                 millis>>

\* Math.floor(Math.random() * 100) + 25, least and greatest
SignalLots == {25, 124}

\* app.post('/api/ai/trading-signal/:symbol'), from the await on:
\* generateTradingSignal stores the analysis under symbol_Date.now();
\* entryPrice, targetPrice * 0.999, is kept as its two factors
tradingSignalResumes(i) ==
  /\ Idle
  /\ i \in 1..Len(pending)
  /\ pending[i].kind = "trading-signal"
  /\ due(i)
  /\ \E draw \in AnalysisDraws, lots \in SignalLots, ms \in millis..MaxMillis :
       LET result == analysis(pending[i], draw, ms)
       IN /\ aiAnalysis' = Put(aiAnalysis, <<pending[i].symbol, DateNow(ms)>>,
                               result)
          /\ response' = json(200, [entryPrice |-> [thousandths |-> 999,
                                                    of |-> result.targetPrice],
                                    quantity |-> lots, timeframe |-> "5min"]
                                   @@ result)
          /\ millis' = ms
  /\ pending' = resumed(i)
  /\ UNCHANGED <<browser, feed, portfolios, positions, priceAlerts, trades>>

\* app.post('/api/ai/create-strategy'), up to the await
createStrategy(bodies) ==
  /\ Idle
  /\ \E body \in bodies :
       pending' = Append(pending, [kind |-> "create-strategy",
                                   delay |-> StrategyDelay, body |-> body])
  /\ response' = NoResponse
  /\ UNCHANGED <<browser, feed, portfolios, positions, priceAlerts, trades, aiAnalysis,
                 millis>>

\* Math.random() * 20 + 10 and Math.random() * 100, in hundredths
StrategyDraws ==
  { [expectedReturn |-> 1000, riskScore |-> 0],
    [expectedReturn |-> 2999, riskScore |-> 9999] }

\* app.post('/api/ai/create-strategy'), from the await on; the name is kept
\* as its prefix and the date it prints
createStrategyResumes(i) ==
  /\ Idle
  /\ i \in 1..Len(pending)
  /\ pending[i].kind = "create-strategy"
  /\ due(i)
  /\ \E draw \in StrategyDraws, ms \in millis..MaxMillis :
       /\ response' =
            json(200, [id |-> DateNow(ms),
                       name |-> <<"AI Strategy ", DateNow(ms)>>,
                       symbols |-> pending[i].body.symbols,
                       riskTolerance |-> pending[i].body.riskTolerance,
                       timeframe |-> pending[i].body.timeframe,
                       investment |-> parseFloat(pending[i].body.investment),
                       expectedReturn |-> draw.expectedReturn,
                       riskScore |-> draw.riskScore,
                       createdAt |-> DateNow(ms)])
       /\ millis' = ms
  /\ pending' = resumed(i)
  /\ UNCHANGED <<browser, feed, portfolios, positions, priceAlerts, trades, aiAnalysis>>

\* app.post('/api/ai/execute-trade'), up to the await
executeTrade(bodies) ==
  /\ Idle
  /\ \E body \in bodies :
       pending' = Append(pending, [kind |-> "execute-trade",
                                   delay |-> ExecutionDelay, body |-> body])
  /\ response' = NoResponse
  /\ UNCHANGED <<browser, feed, portfolios, positions, priceAlerts, trades, aiAnalysis,
                 millis>>

\* marketData.get(symbol)?.price || 0
priceOrZero(symbol) ==
  IF symbol \in DOMAIN marketData THEN marketData[symbol].price ELSE 0

\* app.post('/api/ai/execute-trade'), from the await on
executeTradeResumes(i) ==
  /\ Idle
  /\ i \in 1..Len(pending)
  /\ pending[i].kind = "execute-trade"
  /\ due(i)
  /\ \E ms \in millis..MaxMillis :
       LET body == pending[i].body
           trade == [id |-> DateNow(ms), symbol |-> body.symbol,
                     action |-> body.action,
                     quantity |-> parseInt(body.quantity),
                     orderType |-> body.orderType, status |-> "EXECUTED",
                     executedPrice |-> priceOrZero(body.symbol),
                     executedAt |-> DateNow(ms)]
       IN /\ trades' = Put(trades, trade.id, trade)
          /\ response' = json(200, trade)
          /\ millis' = ms
  /\ pending' = resumed(i)
  /\ UNCHANGED <<browser, feed, portfolios, positions, priceAlerts, aiAnalysis>>

\* app.get('/api/ai/risk-assessment/:userId'), up to the await: the portfolio
\* and the user's positions are read before the delay
riskAssessment(userId) ==
  /\ Idle
  /\ LET found == findByUser(values(portfolios), userId)
         userPositions ==
           filter(values(positions),
                  {p \in {positions[i] : i \in DOMAIN positions} :
                     p.userId = userId})
     IN IF found = {}
          THEN /\ response' = json(404, [error |-> "Portfolio not found"])
               /\ UNCHANGED pending
          ELSE /\ pending' = Append(pending,
                                    [kind |-> "risk-assessment",
                                     delay |-> AssessmentDelay,
                                     portfolio |-> CHOOSE p \in found : TRUE,
                                     userPositions |-> userPositions])
               /\ response' = NoResponse
  /\ UNCHANGED <<browser, feed, portfolios, positions, priceAlerts, trades, aiAnalysis,
                 millis>>

\* userPositions.reduce((sum, pos) => sum + pos.pnl, 0)
RECURSIVE reducePnl(_)
reducePnl(array) ==
  IF array = <<>> THEN 0 ELSE Head(array).pnl + reducePnl(Tail(array))

\* app.get('/api/ai/risk-assessment/:userId'), from the await on; riskScore,
\* Math.abs(totalPnL) / portfolio.totalValue * 100, is kept as a fraction
\* (the model's portfolios have a positive totalValue)
riskAssessmentResumes(i) ==
  /\ Idle
  /\ i \in 1..Len(pending)
  /\ pending[i].kind = "risk-assessment"
  /\ due(i)
  /\ \E ms \in millis..MaxMillis :
       LET portfolio == pending[i].portfolio
           totalPnL == reducePnl(pending[i].userPositions)
           over == Abs(totalPnL) * 100
       IN /\ response' =
               json(200, [portfolioValue |-> portfolio.totalValue,
                          totalPnL |-> totalPnL,
                          riskScore |-> [numerator |-> over,
                                         denominator |-> portfolio.totalValue],
                          riskLevel |-> IF over < 2 * portfolio.totalValue
                                          THEN "LOW"
                                          ELSE IF over < 5 * portfolio.totalValue
                                                 THEN "MEDIUM" ELSE "HIGH",
                          recommendations |->
                            << "Consider diversifying across different sectors",
                               "Monitor position sizing relative to portfolio value",
                               "Set stop-losses for all open positions" >>,
                          assessedAt |-> DateNow(ms)])
          /\ millis' = ms
  /\ pending' = resumed(i)
  /\ UNCHANGED <<browser, feed, portfolios, positions, priceAlerts, trades, aiAnalysis>>

\* ---------------------------------------------------------- specification
\* a connection is one more session of its viewer
Joined(ws) == sessions' = [sessions EXCEPT ![ws] = IF @ < 2 THEN @ + 1 ELSE @]

\* the handlers of the market feed send no HTTP response and leave the
\* tables and the waiting requests of the REST interface alone, and the
\* frontend
Silent ==
  /\ response' = NoResponse
  /\ UNCHANGED <<portfolios, positions, priceAlerts, trades, aiAnalysis,
                 pending, millis, browser>>

Next ==
  \/ updateMarketData(ZeroDraws, MaxTicks) /\ Silent /\ UNCHANGED sessions
  \/ \E ws \in Viewers : connection(ws) /\ Joined(ws) /\ Silent
  \/ \E ws \in Viewers : onError(ws) /\ Silent /\ UNCHANGED sessions
  \/ \E ws \in Viewers : onClose(ws) /\ Silent /\ UNCHANGED sessions
  \/ onSignal /\ Silent /\ UNCHANGED sessions
  \/ serverClosed /\ Silent /\ UNCHANGED sessions

Spec == Init /\ [][Next]_vars

\* the handlers of Next, the sessions left uncounted
NextFair ==
  \/ updateMarketData(ZeroDraws, MaxTicks) /\ Silent /\ UNCHANGED sessions
  \/ \E ws \in Viewers : connection(ws) /\ Silent /\ UNCHANGED sessions
  \/ \E ws \in Viewers : onError(ws) /\ Silent /\ UNCHANGED sessions
  \/ \E ws \in Viewers : onClose(ws) /\ Silent /\ UNCHANGED sessions
  \/ onSignal /\ Silent /\ UNCHANGED sessions
  \/ serverClosed /\ Silent /\ UNCHANGED sessions

\* setInterval(updateMarketData, 5000): while the process is alive the timer
\* keeps firing, and a call that has started runs every iteration
SpecFair ==
  /\ Init
  /\ [][NextFair]_vars
  /\ WF_vars(updateMarketData(ZeroDraws, MaxTicks) /\ Silent /\ UNCHANGED sessions)

\* ------------------------------------------- one tick, from sampled tables
\* A quote the random walk leaves behind after a long decline: an update
\* with fluctuation 0 and Math.random() = 0 for the volume, at a price of
\* 0.60.  Every price from 0.50 up is reachable: an update takes a price p to
\* any hundredth between p * 0.99 and p * 1.01, rounded.
declined(current) ==
  [current EXCEPT !.price = 60, !.change = 0, !.changePercent = 0,
                  !.volume = VolumeBase]

\* the table holds, for each symbol, its quote as loaded or a declined one
InitTick ==
  /\ \E low \in SUBSET Symbols :
       marketData = [symbol \in Symbols |->
                       IF symbol \in low
                         THEN declined(initializeDemoData[symbol])
                         ELSE initializeDemoData[symbol]]
  /\ replaced = marketData
  /\ clients = <<>>
  /\ readyState = [ws \in Viewers |-> "NONE"]
  /\ inbox = [ws \in Viewers |-> <<>>]
  /\ running = 0
  /\ clock = 0
  /\ listening = TRUE
  /\ exited = FALSE
  /\ sessions = [ws \in Viewers |-> 0]
  /\ InitApi
  /\ InitBrowser

NextTick == updateMarketData(Draws, 1) /\ Silent /\ UNCHANGED sessions

SpecTick == InitTick /\ [][NextTick]_vars

\* ------------------------------- the REST interface beside the market feed
\* the records added to the tables since startup, and the requests waiting
Added ==
  Size(portfolios) - Size(demoPortfolios) + Size(positions) - Size(demoPositions)
    + Size(priceAlerts) + Size(trades) + Size(aiAnalysis) + Len(pending)

\* a run of SpecApi takes a request that adds a record, or that waits on a
\* timer, while fewer than MaxRecords are added or waiting
Room == Added < MaxRecords

\* the one viewer of SpecApi
ApiViewers == {1}

\* mutant: a message listener stores the price a viewer sends
onMessageStoresQuote(ws) ==
  /\ Idle
  /\ readyState[ws] = "OPEN"
  /\ marketData' = [marketData EXCEPT !["NIFTY"].price = 1]
  /\ UNCHANGED <<replaced, clients, readyState, inbox, running, clock,
                 listening, exited>>

\* a message from a viewer: no ws.on('message') listener is registered, so the
\* library's 'message' event runs no code of the program
onMessage(ws) ==
  /\ Idle
  /\ readyState[ws] = "OPEN"
  /\ UNCHANGED <<marketData, replaced, clients, readyState, inbox, running,
                 clock, listening, exited>>

\* the requests of SpecApi: a tracked symbol in upper and in lower case and
\* an unknown one; a user with a portfolio and positions and one without
PathSymbols == {"NIFTY", "nifty", "RELIANCE"}

\* the underlying with an options chain, in lower case, and one without
ChainSymbols == {"banknifty", "NIFTY"}

UserIds == {1, 2}

PortfolioBodies ==
  { [userId |-> 2, totalValue |-> 10000000, availableCash |-> 2500000,
     todayPnL |-> 0] }

PositionBodies ==
  { [userId |-> 1, symbol |-> "BANKNIFTY 48000 CE", quantity |-> 2500,
     avgPrice |-> 30000, currentPrice |-> 31000, pnl |-> 25000,
     positionType |-> "long"] }

AlertBodies ==
  { [userId |-> 1, symbol |-> "NIFTY", condition |-> "above",
     targetPrice |-> 2200000] }

TradeBodies ==
  { [userId |-> 1, symbol |-> "BANKNIFTY 48000 CE", tradeType |-> "sell",
     quantity |-> 15050, price |-> 31000] }

StrategyBodies ==
  { [symbols |-> <<"NIFTY">>, riskTolerance |-> "medium", timeframe |-> "1d",
     investment |-> 10000000] }

ExecutionBodies ==
  { [symbol |-> symbol, action |-> "BUY", quantity |-> 2500,
     orderType |-> "MARKET"] : symbol \in PathSymbols }

NextApi ==
  \/ updateMarketData(ZeroDraws, 1) /\ Silent /\ UNCHANGED sessions
  \/ \E ws \in ApiViewers : connection(ws) /\ Joined(ws) /\ Silent
  \/ \E ws \in ApiViewers : onError(ws) /\ Silent /\ UNCHANGED sessions
  \/ \E ws \in ApiViewers : onClose(ws) /\ Silent /\ UNCHANGED sessions
  \/ \E ws \in ApiViewers : onMessage(ws) /\ Silent /\ UNCHANGED sessions
  \/ getHealth
  \/ getMarketIndices
  \/ \E param \in PathSymbols : getMarketIndex(param)
  \/ \E userId \in UserIds : getPortfolio(userId)
  \/ Room /\ postPortfolio(PortfolioBodies)
  \/ \E userId \in UserIds : getPositions(userId)
  \/ Room /\ postPosition(PositionBodies)
  \/ \E param \in ChainSymbols : getOptionsChain(param)
  \/ \E param \in PathSymbols : Room /\ analyzeMarket(param)
  \/ \E i \in 1..Len(pending) : analyzeMarketResumes(i)
  \/ \E param \in PathSymbols : Room /\ tradingSignal(param)
  \/ \E i \in 1..Len(pending) : tradingSignalResumes(i)
  \/ Room /\ createStrategy(StrategyBodies)
  \/ \E i \in 1..Len(pending) : createStrategyResumes(i)
  \/ Room /\ executeTrade(ExecutionBodies)
  \/ \E i \in 1..Len(pending) : executeTradeResumes(i)
  \/ \E userId \in UserIds : Room /\ riskAssessment(userId)
  \/ \E i \in 1..Len(pending) : riskAssessmentResumes(i)
  \/ \E userId \in UserIds : getAlerts(userId)
  \/ Room /\ postAlert(AlertBodies)
  \/ Room /\ postTrade(TradeBodies)
  \/ getWatchlist

SpecApi == Init /\ [][NextApi]_vars

\* ------------------------------------------------------ trades on their own
\* the trade requests of SpecTrade: for a user and symbol with a position at
\* startup and for a user and symbol without one; a buy and two other trade
\* types; 50 and 150.50 units, the held position being 100
TradeRequests ==
  { [userId |-> on.userId, symbol |-> on.symbol, tradeType |-> tradeType,
     quantity |-> quantity, price |-> 31000] :
      on \in { [userId |-> 1, symbol |-> "BANKNIFTY 48000 CE"],
               [userId |-> 2, symbol |-> "NIFTY"] },
      tradeType \in {"buy", "sell", "short"},
      quantity \in {5000, 15050} }

NextTrade ==
  \/ Size(trades) < MaxTrades /\ postTrade(TradeRequests)
  \/ Size(positions) < Size(demoPositions) + MaxRecords
       /\ postPosition(PositionBodies)

SpecTrade == Init /\ [][NextTrade]_vars

\* ------------------------------------------- both routes that store trades
\* the trades stored and the executions waiting on their timer
Orders == Size(trades) + Len(pending)

\* POST /api/trade and POST /api/ai/execute-trade interleaved: a request is
\* taken while fewer than MaxTrades are stored or waiting, and several
\* executions may wait at once
NextOrders ==
  \/ Orders < MaxTrades /\ postTrade(TradeRequests)
  \/ Orders < MaxTrades /\ executeTrade(ExecutionBodies)
  \/ \E i \in 1..Len(pending) : executeTradeResumes(i)

SpecOrders == Init /\ [][NextOrders]_vars

\* --------------------------------------------- the AI trading panel (React)
\* the requests the frontend may have in flight in a run of SpecPanel
MaxFetches == 2

\* the paths of the Sidebar's navigationItems
Pages ==
  {"dashboard", "live-trading", "ai-strategy", "backtest", "portfolio",
   "analytics"}

\* the pages whose component renders <AITradingPanel />: LiveTrading and
\* AIStrategy
PanelPages == {"live-trading", "ai-strategy"}

\* the symbols with an Analyze button
PanelSymbols == {"BANKNIFTY", "NIFTY", "FINNIFTY"}

\* useState<AIAnalysis | null>(null)
null == [null |-> TRUE]

\* a newly mounted AITradingPanel: useState(null), useState(false)
mountedPanel == [mounted |-> TRUE, analysis |-> null, isAnalyzing |-> FALSE]

\* the bodies a successful analysis request may bring for a symbol
PanelResults(symbol) ==
  { analysis([symbol |-> symbol, marketDataPoint |-> initializeDemoData[symbol]],
             draw, 0) : draw \in AnalysisDraws }

\* fetches without the request at place i
settled(i) == SubSeq(fetches, 1, i - 1) \o SubSeq(fetches, i + 1, Len(fetches))

\* a click in the Sidebar: onPageChange(path) is setCurrentPage(path).  The
\* same path changes nothing; another path makes renderPage return an element
\* of another component type, so React unmounts the page shown, its
\* AITradingPanel with its state included, and mounts the new page, with a new
\* AITradingPanel if it has one.  A request the unmounted panel started stays
\* in flight.
onPageChange(page) ==
  /\ page # currentPage
  /\ currentPage' = page
  /\ panel' = IF page \in PanelPages THEN mountedPanel ELSE NoPanel
  /\ fetches' = [i \in 1..Len(fetches) |->
                  [fetches[i] EXCEPT !.mounted = FALSE]]
  /\ UNCHANGED <<feed, api>>

\* disabled={isAnalyzing} on the three Analyze buttons, as rendered: React
\* renders a state update made in a click handler before the browser
\* dispatches the next event
disabled == panel.isAnalyzing

\* a click on an Analyze button: AITradingPanel.analyzeMarket up to its await;
\* a disabled button dispatches no click
panelAnalyzeMarket(symbol) ==
  /\ panel.mounted
  /\ ~disabled
  /\ panel' = [panel EXCEPT !.isAnalyzing = TRUE]
  /\ fetches' = Append(fetches, [symbol |-> symbol, mounted |-> TRUE])
  /\ UNCHANGED <<currentPage, feed, api>>

\* AITradingPanel.analyzeMarket from its await on, when apiRequest resolves:
\* setAnalysis(result), then the finally block; on an unmounted panel a state
\* update does nothing
panelAnalysisResolves(i) ==
  /\ i \in 1..Len(fetches)
  /\ \E result \in PanelResults(fetches[i].symbol) :
       panel' = IF fetches[i].mounted
                  THEN [panel EXCEPT !.analysis = result,
                                     !.isAnalyzing = FALSE]
                  ELSE panel
  /\ fetches' = settled(i)
  /\ UNCHANGED <<currentPage, feed, api>>

\* AITradingPanel.analyzeMarket from its await on, when apiRequest rejects
\* (fetch fails, the status is not ok, or the body is not JSON): the catch
\* block logs, then the finally block
panelAnalysisRejects(i) ==
  /\ i \in 1..Len(fetches)
  /\ panel' = IF fetches[i].mounted
                THEN [panel EXCEPT !.isAnalyzing = FALSE]
                ELSE panel
  /\ fetches' = settled(i)
  /\ UNCHANGED <<currentPage, feed, api>>

NextPanel ==
  \/ \E page \in Pages : onPageChange(page)
  \/ \E symbol \in PanelSymbols :
       Len(fetches) < MaxFetches /\ panelAnalyzeMarket(symbol)
  \/ \E i \in 1..Len(fetches) : panelAnalysisResolves(i)
  \/ \E i \in 1..Len(fetches) : panelAnalysisRejects(i)

SpecPanel == Init /\ [][NextPanel]_vars

\* ------------------------------------------------------------ vocabulary
\* ws is in wss.clients
Registered(ws) == \E i \in 1..Len(clients) : clients[i] = ws

\* ws is registered and open: the viewers a broadcast serves
Open(ws) == Registered(ws) /\ readyState[ws] = "OPEN"

Snapshot(ws) == inbox[ws][1].data

\* the marketUpdate messages of a connection: all but its first message
Updates(ws) == SubSeq(inbox[ws], 2, Len(inbox[ws]))

\* the number of ticks that had completed when ws connected, read off its
\* snapshot: every quote of the table carries the time of its latest update
JoinedAfter(ws) == Snapshot(ws)[symbols[1]].timestamp

\* the number of symbol updates made so far
Progress ==
  IF running = 0 THEN Len(symbols) * clock
  ELSE Len(symbols) * (clock - 1) + running

\* what a viewer that applies its messages in order holds
RECURSIVE Applied(_, _)
Applied(table, messages) ==
  IF messages = <<>> THEN table
  ELSE Applied([table EXCEPT ![Head(messages).symbol] = Head(messages).data],
               Tail(messages))

View(ws) == Applied(Snapshot(ws), Updates(ws))

\* the registry cs after wss.clients.delete(ws)
Without(cs, ws) == SelectSeq(cs, LAMBDA c : c # ws)

\* ------------------------------------------------------------------ C1
\* C1: on every connection the first message is the initialData snapshot, it
\* is the only initialData message, every other message is a marketUpdate
\* (so each comes after the snapshot), and a registered viewer has already
\* been sent its snapshot.
C1_SnapshotFirstAndOnce ==
  \A ws \in Viewers :
    /\ Registered(ws) => inbox[ws] # <<>>
    /\ \A i \in 1..Len(inbox[ws]) :
         /\ inbox[ws][i].type \in {"initialData", "marketUpdate"}
         /\ inbox[ws][i].type = "initialData" <=> i = 1

\* a viewer that connected between two ticks was sent its snapshot and then
\* the four updates of the second tick, while another viewer is not connected
C1_Witness ==
  \E ws \in Viewers :
    /\ Open(ws)
    /\ Len(inbox[ws]) = 1 + Len(symbols)
    /\ JoinedAfter(ws) = 1
    /\ clock = 2
    /\ \E other \in Viewers : ~Registered(other)

\* ------------------------------------------------------------------ C2
\* C2: the snapshot has an entry for every tracked symbol and is the quote
\* table as it stood when the viewer was registered: for every open viewer
\* the snapshot with the later updates applied is the current table, so the
\* snapshot alone is the table in the state where the viewer has just
\* connected (pre-tick before a tick, post-tick after it).
C2_SnapshotIsTable ==
  \A ws \in Viewers :
    Open(ws) =>
      /\ DOMAIN Snapshot(ws) = Symbols
      /\ View(ws) = marketData
      /\ Len(inbox[ws]) = 1 => Snapshot(ws) = marketData

\* one viewer holds the pre-tick snapshot and another the post-tick snapshot
\* of the same tick, with the pre-tick and the post-tick price of a symbol
C2_Witness ==
  \E a, b \in Viewers :
    /\ Open(a) /\ Open(b)
    /\ Len(inbox[a]) = 1 + Len(symbols)
    /\ Len(inbox[b]) = 1
    /\ Snapshot(a)["BANKNIFTY"] = initializeDemoData["BANKNIFTY"]
    /\ Snapshot(b)["BANKNIFTY"] = inbox[a][2].data
    /\ Snapshot(b)["BANKNIFTY"].price # Snapshot(a)["BANKNIFTY"].price

\* ------------------------------------------------------------------ C3
\* C3: a tick is one atomic step for connections: every snapshot is entirely
\* pre-tick or entirely post-tick (all its quotes carry the same tick's
\* time), and while a tick is in progress every viewer's snapshot predates
\* that tick.
C3_TickAtomicForConnections ==
  \A ws \in Viewers :
    inbox[ws] # <<>> =>
      /\ \A s, t \in Symbols :
           Snapshot(ws)[s].timestamp = Snapshot(ws)[t].timestamp
      /\ running > 0 => JoinedAfter(ws) < clock

\* the second tick is in progress and a viewer holds the snapshot taken
\* between the two ticks
C3_Witness ==
  \E ws \in Viewers :
    /\ Open(ws)
    /\ running = 2
    /\ clock = 2
    /\ JoinedAfter(ws) = 1
    /\ marketData[symbols[1]].timestamp = 2
    /\ marketData[symbols[4]].timestamp = 1

\* ------------------------------------------------------------------ C4
\* C4: two viewers that are both open were sent the same marketUpdate
\* messages, in the same order, for the ticks since the later of them
\* connected: the later one's updates are the earlier one's updates after
\* the ticks it missed.
C4_SameUpdateSequence ==
  \A a, b \in Viewers :
    (Open(a) /\ Open(b) /\ JoinedAfter(a) <= JoinedAfter(b)) =>
      Updates(b) = SubSeq(Updates(a),
                          Len(symbols) * (JoinedAfter(b) - JoinedAfter(a)) + 1,
                          Len(Updates(a)))

\* two viewers open across the same tick, one of them also across an
\* earlier tick
C4_Witness ==
  \E a, b \in Viewers :
    /\ a # b
    /\ Open(a) /\ Open(b)
    /\ Len(Updates(a)) = 2 * Len(symbols)
    /\ Len(Updates(b)) = Len(symbols)

C6_FailedViewerDropped ==
  [][\A ws \in Viewers :
       (marketData' # marketData /\ Registered(ws) /\ readyState[ws] # "OPEN")
         => \A i \in 1..Len(clients') : clients'[i] # ws]_vars

\* ------------------------------------------------------------------ C7
\* C7: once a signal has started the shutdown no tick runs, and the signal
\* handler closes every registered viewer, leaving the registry empty.
C7_TeardownStopsTicksAndViewers ==
  [][/\ ~listening => (marketData' = marketData /\ clock' = clock)
     /\ (listening /\ ~listening') => clients' = <<>>]_vars

\* ------------------------------------------------------------------ C8
\* C8: the price stored by an update lies within [0.99, 1.01] times the price
\* it replaced.
C8_PriceWithinOnePercent ==
  \A s \in Symbols :
    /\ 99 * replaced[s].price <= 100 * marketData[s].price
    /\ 100 * marketData[s].price <= 101 * replaced[s].price

\* ------------------------------------------------------------------ C9
\* C9: the change stored by an update is the stored price minus the stored
\* price it replaced.
C9_ChangeIsStoredDifference ==
  \A s \in Symbols :
    marketData[s].timestamp > 0 =>
      marketData[s].change = marketData[s].price - replaced[s].price

\* ----------------------------------------------------------------- C10
\* C10: the changePercent stored by an update is the stored change divided
\* by the replaced stored price, times 100, to within 0.01 (one unit of the
\* second decimal): |changePercent - change / price * 10000| <= 1 in
\* hundredths of a percent.
C10_PercentMatchesStoredChange ==
  \A s \in Symbols :
    marketData[s].timestamp > 0 =>
      Abs(marketData[s].changePercent * replaced[s].price
            - marketData[s].change * FluctScale) <= replaced[s].price

\* ----------------------------------------------------------------- C11
\* C11: every symbol a tick has updated carries a volume v that is an integer
\* with 500000 <= v < 1000000 and the time of that tick as its timestamp;
\* once the tick has finished that is every tracked symbol.
C11_VolumeAndTimestamp ==
  \A i \in 1..Len(symbols) :
    (clock > 0 /\ (running = 0 \/ i <= running)) =>
      LET quote == marketData[symbols[i]]
      IN /\ quote.volume \in Int
         /\ VolumeBase <= quote.volume
         /\ quote.volume < VolumeBase + VolumeSpan
         /\ quote.timestamp = clock

\* a finished tick replaced a startup volume above the range by the least
\* volume for one symbol and by the greatest for another
C11_Witness ==
  /\ running = 0
  /\ clock = 1
  /\ replaced["BANKNIFTY"].volume >= VolumeBase + VolumeSpan
  /\ marketData["BANKNIFTY"].volume = VolumeBase
  /\ marketData["NIFTY"].volume = VolumeBase + VolumeSpan - 1
  /\ marketData["NIFTY"].timestamp = 1

\* ----------------------------------------------------------------- C12
\* C12: the iterations of a tick handle the symbols in the order of the
\* tick's list, one symbol each; the iteration for a symbol replaces the
\* symbol's entry and sends every open viewer exactly one marketUpdate for
\* that symbol whose data is the entry now stored; nothing else sends a
\* marketUpdate.
C12_OneUpdatePerSymbolInOrder ==
  [][/\ running' # running =>
          LET symbol == symbols[running + 1]
          IN /\ running' = (running + 1) % Len(symbols)
             /\ replaced'[symbol] = marketData[symbol]
             /\ \A other \in Symbols \ {symbol} :
                  marketData'[other] = marketData[other]
             /\ \A ws \in Viewers :
                  inbox'[ws] =
                    IF Open(ws)
                      THEN Append(inbox[ws],
                                  [type |-> "marketUpdate", symbol |-> symbol,
                                   data |-> marketData'[symbol]])
                      ELSE inbox[ws]
     /\ running' = running =>
          \A ws \in Viewers :
            \A i \in 1..Len(inbox'[ws]) :
              i > Len(inbox[ws]) => inbox'[ws][i].type # "marketUpdate"]_vars

\* a viewer open across the whole first tick holds one update per symbol, in
\* the order of the tick's list, each with the quote the table now stores
C12_Witness ==
  \E ws \in Viewers :
    /\ Open(ws)
    /\ running = 0
    /\ clock = 1
    /\ Len(Updates(ws)) = Len(symbols)
    /\ \A i \in 1..Len(symbols) :
         /\ Updates(ws)[i].symbol = symbols[i]
         /\ Updates(ws)[i].data = marketData[symbols[i]]
         /\ Updates(ws)[i].data # Snapshot(ws)[symbols[i]]

C16_ReconnectIsNewViewer ==
  [][\A ws \in Viewers :
       /\ (readyState[ws] = "NONE" /\ readyState'[ws] = "OPEN") =>
            /\ inbox'[ws] = << [type |-> "initialData", data |-> marketData] >>
            /\ marketData' = marketData
       /\ \A i \in 2..Len(inbox'[ws]) :
            /\ inbox'[ws][i].type = "marketUpdate"
            /\ inbox'[ws][i].data.timestamp > inbox'[ws][1].data[symbols[1]].timestamp]_vars

\* a viewer on its second connection, made after the first tick, holds the
\* snapshot of the table after that tick and the updates of the second tick
\* only, while another viewer holds the updates of both ticks
C16_Witness ==
  \E ws, other \in Viewers :
    /\ sessions[ws] = 2
    /\ Open(ws)
    /\ JoinedAfter(ws) = 1
    /\ Len(Updates(ws)) = Len(symbols)
    /\ Open(other)
    /\ Len(Updates(other)) = 2 * Len(symbols)
    /\ Snapshot(ws)["BANKNIFTY"] = inbox[other][2].data
    /\ clock = 2
    /\ running = 0

\* ----------------------------------------------------------------- C13
\* C13: in every reachable state, whatever ticks, viewer events and REST
\* requests led to it, the keys of the quote table are exactly the four
\* symbols loaded at startup.
C13_KeysFixed ==
  DOMAIN marketData = {"BANKNIFTY", "NIFTY", "SENSEX", "FINNIFTY"}

\* after a tick, a second connection of a viewer and a recorded trade, a
\* lookup of an unknown symbol has just been answered
C13_Witness ==
  /\ clock = 1
  /\ running = 0
  /\ sessions[1] = 2
  /\ Size(trades) = 1
  /\ response = json(404, [error |-> "Market data not found"])

\* ----------------------------------------------------------------- C14
\* C14: a request that names a symbol absent from the quote table is
\* answered "not found": no request is answered with another error (status
\* 500), a request to execute a trade in an absent symbol is answered with
\* status 404, and the step that answers leaves the quote table unchanged.
C14_AbsentSymbolNotFound ==
  [][/\ response'.status # 500
     /\ response'.status # 0 => marketData' = marketData
     /\ \A i \in 1..Len(pending) :
          (/\ pending[i].kind = "execute-trade"
           /\ pending[i].body.symbol \notin DOMAIN marketData
           /\ pending' = resumed(i))
            => response'.status = 404]_vars

\* ----------------------------------------------------------------- C18
\* C18: only an iteration of the tick changes the quote table: every other
\* step (a viewer connecting, disconnecting or sending a message, a REST
\* request or the resumption of one) leaves the table as it was.
C18_OnlyTickWritesTable ==
  [][running' = running => marketData' = marketData]_vars

\* before the first tick the table is still as loaded although a viewer is
\* on its second connection and a trade that changed a position has just
\* been recorded and answered
C18_Witness ==
  /\ clock = 0
  /\ marketData = initializeDemoData
  /\ sessions[1] = 2
  /\ readyState[1] = "OPEN"
  /\ Size(trades) = 1
  /\ positions # demoPositions
  /\ response.status = 201

\* ----------------------------------------------------------------- C20
\* C20: a step that records a trade stores it under the next id with status
\* EXECUTED and leaves the earlier trades alone; if a position of the trade's
\* user and symbol exists, the first such position gets the quantity plus the
\* trade's quantity on a buy and minus it on any other trade type, the
\* trade's price as currentPrice and (price - avgPrice) * new quantity as
\* pnl, keeps its other fields, and no position is added or otherwise
\* changed; if none exists, a buy adds exactly one position (long, pnl 0,
\* bought at the trade's price) and any other trade type changes nothing.
C20_TradeAdjustsPosition ==
  [][trades' # trades =>
       LET id == Size(trades) + 1
           trade == trades'[id]
           held == {p \in DOMAIN positions :
                      /\ positions[p].userId = trade.userId
                      /\ positions[p].symbol = trade.symbol}
           first == CHOOSE p \in held : \A q \in held : p <= q
           opened == Size(positions) + 1
       IN /\ DOMAIN trades' = DOMAIN trades \cup {id}
          /\ id \notin DOMAIN trades
          /\ \A t \in DOMAIN trades : trades'[t] = trades[t]
          /\ trade.id = id
          /\ trade.status = "EXECUTED"
          /\ IF held # {}
               THEN /\ DOMAIN positions' = DOMAIN positions
                    /\ \A p \in DOMAIN positions \ {first} :
                         positions'[p] = positions[p]
                    /\ positions'[first].quantity =
                         IF trade.tradeType = "buy"
                           THEN positions[first].quantity + trade.quantity
                           ELSE positions[first].quantity - trade.quantity
                    /\ positions'[first].currentPrice = trade.price
                    /\ positions'[first].pnl =
                         (trade.price - positions[first].avgPrice)
                           * positions'[first].quantity
                    /\ positions'[first] =
                         [positions[first] EXCEPT
                            !.quantity = positions'[first].quantity,
                            !.currentPrice = positions'[first].currentPrice,
                            !.pnl = positions'[first].pnl]
               ELSE IF trade.tradeType = "buy"
                      THEN /\ DOMAIN positions' = DOMAIN positions \cup {opened}
                           /\ opened \notin DOMAIN positions
                           /\ \A p \in DOMAIN positions :
                                positions'[p] = positions[p]
                           /\ positions'[opened].id = opened
                           /\ positions'[opened].userId = trade.userId
                           /\ positions'[opened].symbol = trade.symbol
                           /\ positions'[opened].quantity = trade.quantity
                           /\ positions'[opened].avgPrice = trade.price
                           /\ positions'[opened].currentPrice = trade.price
                           /\ positions'[opened].pnl = 0
                           /\ positions'[opened].positionType = "long"
                      ELSE positions' = positions]_vars

\* selling 150 units of a position of 100 has left it at -50, with a
\* negative pnl at a price above its avgPrice; a buy for a user without a
\* position has opened the third position
C20_Witness ==
  /\ Size(trades) = 2
  /\ positions[1].quantity = -50
  /\ positions[1].pnl = (31000 - 28750) * (-50)
  /\ positions[1].avgPrice = 28750
  /\ Size(positions) = 3
  /\ positions[3].userId = 2
  /\ positions[3].pnl = 0

\* ----------------------------------------------------------------- C17
\* the updates a finished tick made are the last messages of ws, one per
\* symbol in the order of the tick's list, each with the tick's time
GotTick(ws) ==
  /\ Len(Updates(ws)) >= Len(symbols)
  /\ \A i \in 1..Len(symbols) :
       inbox[ws][Len(inbox[ws]) - Len(symbols) + i] =
         [type |-> "marketUpdate", symbol |-> symbols[i],
          data |-> marketData[symbols[i]]]
  /\ \A s \in Symbols : marketData[s].timestamp = clock

\* C17: with a fair timer, while the process is alive (and the clock is
\* within MaxTicks) the next tick eventually starts; a viewer that is open
\* when a tick runs, and stays open, eventually holds that tick's update of
\* every symbol, after its snapshot; and the updates a viewer holds are in
\* tick order, at most one per symbol and tick, none from a tick that is not
\* later than its snapshot (nothing replayed, nothing backfilled).
C17_TicksReachOpenViewers ==
  /\ (running = 0 /\ clock < MaxTicks /\ ~exited) ~> (running > 0 \/ exited)
  /\ \A ws \in Viewers :
       (Open(ws) /\ running > 0) ~> (~Open(ws) \/ (running = 0 /\ GotTick(ws)))
  /\ [](\A ws \in Viewers :
          \A i \in 1..Len(Updates(ws)) :
            /\ Updates(ws)[i].data.timestamp > JoinedAfter(ws)
            /\ \A j \in 1..(i - 1) :
                 /\ Updates(ws)[j].data.timestamp <= Updates(ws)[i].data.timestamp
                 /\ Updates(ws)[j].data.timestamp = Updates(ws)[i].data.timestamp
                      => Updates(ws)[j].symbol # Updates(ws)[i].symbol)

\* a viewer open since before the first tick holds the updates of every tick
\* up to the last one, that tick's last, while another viewer is gone
C17_Witness ==
  \E ws \in Viewers :
    /\ Open(ws)
    /\ clients = <<ws>>
    /\ running = 0
    /\ clock = MaxTicks
    /\ JoinedAfter(ws) = 0
    /\ Len(Updates(ws)) = MaxTicks * Len(symbols)
    /\ Updates(ws)[1].data.timestamp = 1
    /\ GotTick(ws)

\* ----------------------------------------------------------------- C21
\* C21: every step that answers a trade request with success (201 from
\* POST /api/trade, 200 from POST /api/ai/execute-trade) adds one entry to
\* the trades table and leaves every trade stored earlier as it was, so the
\* stored trades are as many as the successful requests.
C21_TradesKeptDistinct ==
  [][response'.status \in {200, 201}
       => /\ Size(trades') = Size(trades) + 1
          /\ \A id \in DOMAIN trades : trades'[id] = trades[id]]_vars

\* ----------------------------------------------------------------- C22
\* the request that has just started to wait
Arrived == pending'[Len(pending')]

\* C22: an analysis (of either AI route) starts to wait holding the quote the
\* table has for its symbol at that moment; no step changes what a waiting
\* request holds, a tick in particular, which puts a new quote in the table;
\* the analysis answered after the delay has targetPrice and stopLoss
\* computed from the quote held.  An execution answered after its delay has
\* the executedPrice the table gives for its symbol at that moment.
C22_AnalysisUsesCapturedQuote ==
  [][/\ (/\ Len(pending') = Len(pending) + 1
         /\ Arrived.kind \in {"analyze-market", "trading-signal"})
          => Arrived.marketDataPoint = marketData[Arrived.symbol]
     /\ \/ /\ Len(pending') >= Len(pending)
           /\ \A i \in 1..Len(pending) : pending'[i] = pending[i]
        \/ \E i \in 1..Len(pending) : pending' = resumed(i)
     /\ running' # running => pending' = pending
     /\ \A i \in 1..Len(pending) :
          (/\ pending[i].kind \in {"analyze-market", "trading-signal"}
           /\ pending' = resumed(i))
            => LET held == pending[i].marketDataPoint.price
                   result == response'.body
               IN /\ result.targetPrice
                       = held * targetMultiplier(result.signal)
                  /\ result.stopLoss = held * stopMultiplier(result.signal)
     /\ \A i \in 1..Len(pending) :
          (/\ pending[i].kind = "execute-trade"
           /\ pending[i].body.symbol \in DOMAIN marketData'
           /\ pending' = resumed(i))
            => response'.body.executedPrice
                 = marketData'[pending[i].body.symbol].price]_vars

\* an analysis of a symbol has just been answered from the quote that a tick
\* replaced while the request waited: its target is not the one the table's
\* price would give
C22_Witness ==
  /\ clock = 1
  /\ running = 0
  /\ \E symbol \in Symbols, draw \in AnalysisDraws, ms \in 0..MaxMillis :
       /\ replaced[symbol].price # marketData[symbol].price
       /\ response
            = json(200, analysis([symbol |-> symbol,
                                  marketDataPoint |-> replaced[symbol]],
                                 draw, ms))
       /\ response.body.targetPrice
            # marketData[symbol].price * targetMultiplier(draw.signal)

\* ----------------------------------------------------------------- C23
\* C23: every step of the frontend leaves at most one analysis request in
\* flight and, if a panel is shown, isAnalyzing true exactly when a request is
\* in flight; a request starts only with the Analyze buttons enabled and
\* disables them; when a request settles with a panel shown, isAnalyzing is
\* false, and the analysis shown changes only to a result the request brought
\* (a request that fails leaves it as it was).
C23_OneAnalysisInFlight ==
  [][/\ Len(fetches') <= 1
     /\ panel'.mounted => (panel'.isAnalyzing <=> fetches' # <<>>)
     /\ Len(fetches') > Len(fetches) => ~disabled /\ panel'.isAnalyzing
     /\ (Len(fetches') < Len(fetches) /\ panel'.mounted)
          => /\ ~panel'.isAnalyzing
             /\ panel'.analysis # panel.analysis
                  => \E i \in 1..Len(fetches) :
                       /\ fetches' = settled(i)
                       /\ panel'.analysis \in PanelResults(fetches[i].symbol)
    ]_vars
====
